---- MODULE Spec2Model ----
(***************************************************************************)
(* A model of the robotaxi OSINT agent: the two source pollers with their  *)
(* keyword pre-filter, the analyzer, the three-node graph                  *)
(* fetch_posts -> analyze_candidates -> route_candidates, and run_once     *)
(* with the watermark file and the candidate file.                         *)
(*                                                                         *)
(* Conventions.  A Python str is a sequence of one-character strings, so   *)
(* that lower() and the substring test are computed and not assumed.  An   *)
(* Optional value is a sequence of length at most one (<<>> is None).  A   *)
(* confidence is a number of tenths (5 is 0.5).  A source_id is the pair   *)
(* <<prefix, id>> of the f-string that builds it.  The model's verdicts    *)
(* carry a number as confidence.                                           *)
(***************************************************************************)
EXTENDS Integers, Sequences, FiniteSets, TLC

VARIABLES
    pc,                   \* position of the process: "idle", a graph node, or a step of run_once
    cycle,                \* number of run_once calls started
    clock,                \* the wall clock, read by datetime.now(UTC)
    state_file,           \* the watermark file: <<>> (absent/unreadable) or <<its last_check string>>
    output_file,          \* the candidate file: the JSON array of records
    last_check,           \* RobotaxiAgent.last_check / state["last_check"]
    candidates,           \* state["candidates"]
    analyzed_candidates,  \* state["analyzed_candidates"]
    valid_candidates,     \* state["valid_candidates"]
    rejected_candidates,  \* state["rejected_candidates"]
    errors,               \* state["errors"]
    stats,                \* state["stats"]
    world,                \* what the external sources answer in this cycle
    outcomes,             \* what the model API answered for each candidate of this cycle
    visited,              \* the graph nodes executed in this cycle, in order
    ret,                  \* the last return value of run_once, <<>> before the first return
    lc_write,             \* the watermark write of this cycle: "none", "ok" or "failed"
    prev_output,          \* the candidate file as the last step of run_once found it
    posts_left,           \* posts the sources may still return in this run
    faults_left           \* failures the environment may still inject in this run

vars == <<pc, cycle, clock, state_file, output_file, last_check, candidates,
          analyzed_candidates, valid_candidates, rejected_candidates, errors,
          stats, world, outcomes, visited, ret, lc_write, prev_output,
          posts_left, faults_left>>

(***************************************************************************)
(* Bounds of the model.                                                    *)
(***************************************************************************)
MaxCycles == 2   \* run_once calls in a run
MaxPosts == 2    \* posts returned by all sources over a run
MaxFaults == 1   \* failed requests, raising pollers and failed writes over a run
MaxPage == 2     \* posts in one listing or search response

(***************************************************************************)
(* Text.                                                                   *)
(***************************************************************************)
UpperCase == <<"A","B","C","D","E","F","G","H","I","J","K","L","M",
               "N","O","P","Q","R","S","T","U","V","W","X","Y","Z">>
LowerCase == <<"a","b","c","d","e","f","g","h","i","j","k","l","m",
               "n","o","p","q","r","s","t","u","v","w","x","y","z">>

\* str.lower() on one character
LowerChar(c) ==
    IF \E i \in DOMAIN UpperCase : UpperCase[i] = c
    THEN LowerCase[CHOOSE i \in DOMAIN UpperCase : UpperCase[i] = c]
    ELSE c

\* str.lower()
Lower(text) == [i \in DOMAIN text |-> LowerChar(text[i])]

\* the Python test `sub in text`
IsSubstring(sub, text) ==
    \E i \in 1..(Len(text) - Len(sub) + 1) : SubSeq(text, i, i + Len(sub) - 1) = sub

\* text[:n]
Truncate(text, n) == IF Len(text) <= n THEN text ELSE SubSeq(text, 1, n)

\* f"{a} {b}"
Combined(a, b) == a \o <<" ">> \o b

\* str.strip()
RECURSIVE Strip(_)
Strip(text) ==
    IF text = <<>> THEN <<>>
    ELSE IF Head(text) = " " THEN Strip(Tail(text))
    ELSE IF text[Len(text)] = " " THEN Strip(SubSeq(text, 1, Len(text) - 1))
    ELSE text

Min(S) == CHOOSE x \in S : \A y \in S : x <= y

(***************************************************************************)
(* config.py                                                               *)
(***************************************************************************)
SUBREDDITS == <<"TeslaLounge", "SelfDrivingCars", "teslamotors">>

KEYWORDS == <<
    <<"r","o","b","o","t","a","x","i">>,
    <<"c","y","b","e","r","c","a","b">>,
    <<"c","a","m","o","u","f","l","a","g","e">>,
    <<"l","i","d","a","r">>,
    <<"t","e","s","t"," ","v","e","h","i","c","l","e">>,
    <<"p","r","o","t","o","t","y","p","e">>,
    <<"m","a","n","u","f","a","c","t","u","r","e","r"," ","p","l","a","t","e">>,
    <<"m","f","g"," ","p","l","a","t","e">>,
    <<"d","s","t"," ","p","l","a","t","e">> >>

RawTextLimit == 500
RouteThreshold == 5

(***************************************************************************)
(* models.py: ExtractedData with its two validators, and SightingCandidate *)
(* as a poller creates it.                                                 *)
(***************************************************************************)
Cybercab == <<"c","y","b","e","r","c","a","b">>
CyberCab == <<"c","y","b","e","r"," ","c","a","b">>
ModelY == <<"m","o","d","e","l"," ","y">>
ModelYJoined == <<"m","o","d","e","l","y">>
ModelYDashed == <<"m","o","d","e","l","-","y">>

NormalizeVehicleTypeLowerOnly(v) ==
    IF v = <<>> THEN <<>> ELSE <<Lower(v[1])>>

\* ExtractedData.normalize_vehicle_type
NormalizeVehicleType(v) ==
    IF v = <<>> THEN <<>>
    ELSE LET v_lower == Strip(Lower(v[1]))
         IN  IF v_lower \in {Cybercab, CyberCab} THEN <<Cybercab>>
             ELSE IF v_lower \in {ModelY, ModelYJoined, ModelYDashed} THEN <<ModelY>>
             ELSE <<>>

\* ExtractedData.validate_location_format: re.match(r'^.+,\s*.+$', v_str)
ValidateLocationFormat(v) ==
    IF v = <<>> THEN <<>>
    ELSE LET v_str == Strip(v[1])
         IN  IF \E i \in DOMAIN v_str : v_str[i] = "," /\ 1 < i /\ i < Len(v_str)
             THEN <<v_str>> ELSE <<>>

\* ExtractedData(...): the fields after validation
ExtractedData(license_plate, vehicle_type, vehicle_color, location) ==
    [license_plate |-> license_plate,
     vehicle_type  |-> NormalizeVehicleType(vehicle_type),
     vehicle_color |-> vehicle_color,
     location      |-> ValidateLocationFormat(location)]

\* ExtractedData(): every field None
DefaultExtractedData == ExtractedData(<<>>, <<>>, <<>>, <<>>)

NewCandidate(source_id, text, now) ==
    [source_id          |-> source_id,
     raw_text           |-> Truncate(text, RawTextLimit),
     timestamp_detected |-> now,
     confidence_score   |-> 0,
     extracted_data     |-> DefaultExtractedData,
     status             |-> "PENDING_REVIEW"]

\* a call's result: a returned value, or a raised exception
Returned(v) == [raised |-> FALSE, value |-> v]
Raised == [raised |-> TRUE, value |-> <<>>]

(***************************************************************************)
(* What a source answers to one request: "none" is a request that fails    *)
(* with a RequestException or a ValueError (the poller's helper returns    *)
(* None), "raise" is a decoded body of another shape than the code reads   *)
(* (a TypeError or AttributeError, which the helper does not catch), "ok"  *)
(* is a page of posts.                                                     *)
(***************************************************************************)
FailedResponse == [kind |-> "none", posts |-> <<>>]
BrokenResponse == [kind |-> "raise", posts |-> <<>>]
Page(posts) == [kind |-> "ok", posts |-> posts]

(***************************************************************************)
(* reddit_poller.py                                                        *)
(***************************************************************************)
\* RedditPoller.__init__ and XPoller.__init__: self.keywords
SelfKeywords == [k \in DOMAIN KEYWORDS |-> Lower(KEYWORDS[k])]

ContainsKeywordsUnfiltered(text) == TRUE

\* RedditPoller._contains_keywords
ContainsKeywords(text) ==
    IF text = <<>> THEN FALSE
    ELSE LET text_lower == Lower(text)
         IN  \E k \in DOMAIN SelfKeywords : IsSubstring(SelfKeywords[k], text_lower)

FetchSubredditJsonPropagates(response) ==
    IF response.kind = "ok" THEN Returned(<<response.posts>>) ELSE Raised

\* RedditPoller._fetch_subreddit_json
FetchSubredditJson(response) ==
    CASE response.kind = "ok"    -> Returned(<<response.posts>>)
      [] response.kind = "none"  -> Returned(<<>>)
      [] response.kind = "raise" -> Raised

\* RedditPoller._post_to_candidate
PostToCandidate(post_data, now) ==
    NewCandidate(<<"reddit", post_data.id>>,
                 Combined(post_data.title, post_data.selftext), now)

\* the keyword filter and conversion applied to the posts a loop visits
RECURSIVE MatchingCandidates(_, _)
MatchingCandidates(posts, now) ==
    IF posts = <<>> THEN <<>>
    ELSE LET post_data == Head(posts)
             rest == MatchingCandidates(Tail(posts), now)
         IN  IF ~ContainsKeywords(Combined(post_data.title, post_data.selftext))
             THEN rest
             ELSE <<PostToCandidate(post_data, now)>> \o rest

BeforeBreakContinues(posts, since) ==
    SelectSeq(posts, LAMBDA post_data : post_data.created_utc > since)

\* the posts the loop of fetch_new_posts_since visits before its break
BeforeBreak(posts, since) ==
    LET old == {i \in DOMAIN posts : posts[i].created_utc <= since}
    IN  IF old = {} THEN posts ELSE SubSeq(posts, 1, Min(old) - 1)

\* one iteration of the loop over Config.SUBREDDITS; since is <<>> in fetch_recent_posts
SubredditCandidates(response, since, now) ==
    LET posts == FetchSubredditJson(response).value
    IN  IF posts = <<>> \/ posts[1] = <<>> THEN <<>>
        ELSE IF since = <<>> THEN MatchingCandidates(posts[1], now)
        ELSE MatchingCandidates(BeforeBreak(posts[1], since[1]), now)

RECURSIVE SubredditLoop(_, _, _, _)
SubredditLoop(responses, i, since, now) ==
    IF i > Len(SUBREDDITS) THEN Returned(<<>>)
    ELSE IF FetchSubredditJson(responses[i]).raised THEN Raised
    ELSE LET rest == SubredditLoop(responses, i + 1, since, now)
         IN  IF rest.raised THEN Raised
             ELSE Returned(SubredditCandidates(responses[i], since, now) \o rest.value)

\* RedditPoller.fetch_recent_posts
RedditFetchRecentPosts(responses, now) == SubredditLoop(responses, 1, <<>>, now)

\* RedditPoller.fetch_new_posts_since
RedditFetchNewPostsSince(responses, since, now) ==
    SubredditLoop(responses, 1, <<since>>, now)

(***************************************************************************)
(* x_poller.py                                                             *)
(***************************************************************************)
\* the path segments that the regex \d+ matches
DigitSegments == {"123", "456"}

\* XPoller._contains_keywords
XContainsKeywords(text) ==
    IF text = <<>> THEN FALSE
    ELSE LET text_lower == Lower(text)
         IN  \E k \in DOMAIN SelfKeywords : IsSubstring(SelfKeywords[k], text_lower)

\* XPoller._search_google
SearchGoogle(response) ==
    CASE response.kind = "ok"    -> Returned(<<response.posts>>)
      [] response.kind = "none"  -> Returned(<<>>)
      [] response.kind = "raise" -> Raised

\* XPoller._extract_tweet_id_from_url: re.search(r'/status/(\d+)', url)
ExtractTweetIdFromUrl(link) ==
    LET hits == {i \in 1..(Len(link) - 1) :
                    link[i] = "status" /\ link[i + 1] \in DigitSegments}
    IN  IF hits = {} THEN <<>> ELSE <<link[Min(hits) + 1]>>

\* XPoller._search_result_to_candidate
SearchResultToCandidate(result, now) ==
    LET tweet_id == ExtractTweetIdFromUrl(result.link)
    IN  NewCandidate(<<"x", IF tweet_id = <<>> THEN "unknown" ELSE tweet_id[1]>>,
                     Combined(result.title, result.snippet), now)

RECURSIVE MatchingResults(_, _)
MatchingResults(results, now) ==
    IF results = <<>> THEN <<>>
    ELSE LET result == Head(results)
             rest == MatchingResults(Tail(results), now)
         IN  IF ~XContainsKeywords(Combined(result.title, result.snippet))
             THEN rest
             ELSE <<SearchResultToCandidate(result, now)>> \o rest

\* XPoller.fetch_recent_posts
XFetchRecentPosts(response, now) ==
    LET results == SearchGoogle(response)
    IN  IF results.raised THEN Raised
        ELSE IF results.value = <<>> \/ results.value[1] = <<>> THEN Returned(<<>>)
        ELSE Returned(MatchingResults(results.value[1], now))

XFetchNewPostsSinceNothingOld(response, since, now) ==
    IF since >= 1 THEN Returned(<<>>) ELSE XFetchRecentPosts(response, now)

\* XPoller.fetch_new_posts_since
XFetchNewPostsSince(response, since, now) == XFetchRecentPosts(response, now)


(***************************************************************************)
(* llm_analyzer.py                                                         *)
(*                                                                         *)
(* What the model API does for one candidate: "raise" is a transport or    *)
(* API exception, "empty" an empty completion, "badjson" a completion that *)
(* json.loads rejects, "ok" a JSON object.  Of the object the model keeps  *)
(* is_valid_sighting ("missing" when a key analyze subscripts is absent),  *)
(* confidence, and whether a field value fails ExtractedData's validation  *)
(* (a license_plate that is a number, say).                                *)
(***************************************************************************)
SyntheticVerdict(reasoning) ==
    [is_valid_sighting |-> "false", confidence |-> 0, bad_field |-> FALSE,
     license_plate |-> <<>>, vehicle_type |-> <<>>, vehicle_color |-> <<>>,
     location |-> <<>>, reasoning |-> reasoning]

CallOpenAIPropagates(outcome) ==
    IF outcome.api = "ok" THEN Returned(outcome.verdict) ELSE Raised

\* LLMAnalyzer._call_openai
CallOpenAI(outcome) ==
    CASE outcome.api = "ok"      -> Returned(outcome.verdict)
      [] outcome.api = "badjson" -> Returned(SyntheticVerdict("JSON parse error"))
      [] outcome.api = "empty"   -> Returned(SyntheticVerdict("API error"))
      [] outcome.api = "raise"   -> Returned(SyntheticVerdict("API error"))

AnalyzeAlwaysExtracts(candidate, outcome) ==
    LET result == CallOpenAI(outcome).value
        filled == [candidate EXCEPT !.confidence_score = result.confidence,
                                    !.extracted_data =
                                        ExtractedData(result.license_plate,
                                                      result.vehicle_type,
                                                      result.vehicle_color,
                                                      result.location)]
    IN  IF result.is_valid_sighting = "missing" \/ result.bad_field
        THEN [raised |-> TRUE, candidate |-> candidate]
        ELSE IF result.is_valid_sighting = "true"
        THEN [raised |-> FALSE, candidate |-> filled]
        ELSE [raised |-> FALSE, candidate |-> [filled EXCEPT !.status = "REJECTED"]]

\* LLMAnalyzer.analyze: the candidate object is updated in place, so a raise
\* leaves the candidate as the statements before it made it
Analyze(candidate, outcome) ==
    LET call == CallOpenAI(outcome)
        result == call.value
    IN  IF call.raised THEN [raised |-> TRUE, candidate |-> candidate]
        ELSE IF result.is_valid_sighting = "missing"
        THEN [raised |-> TRUE, candidate |-> candidate]
        ELSE IF result.is_valid_sighting = "true"
        THEN LET scored == [candidate EXCEPT !.confidence_score = result.confidence]
             IN  IF result.bad_field THEN [raised |-> TRUE, candidate |-> scored]
                 ELSE [raised |-> FALSE,
                       candidate |-> [scored EXCEPT !.extracted_data =
                                         ExtractedData(result.license_plate,
                                                       result.vehicle_type,
                                                       result.vehicle_color,
                                                       result.location)]]
        ELSE [raised |-> FALSE,
              candidate |-> [candidate EXCEPT !.confidence_score = result.confidence,
                                              !.status = "REJECTED"]]

(***************************************************************************)
(* graph/graph_state.py, graph/graph_builder.py, graph/graph_nodes.py      *)
(***************************************************************************)
OperatorAddOverwrites(a, b) == b

\* AgentState.errors: Annotated[List[str], operator.add], the update of a node is
\* added to the list
OperatorAdd(a, b) == a \o b

MergeOverwrites(a, b) == b

\* dict | dict
Merge(a, b) ==
    [k \in DOMAIN a \cup DOMAIN b |-> IF k \in DOMAIN b THEN b[k] ELSE a[k]]

ErrorString(kind, source_id) == [kind |-> kind, source_id |-> source_id]

EdgesSkipAnalyze ==
    [fetch_posts        |-> "route_candidates",
     analyze_candidates |-> "route_candidates",
     route_candidates   |-> "END"]

\* build_agent_graph: set_entry_point and add_edge
EntryPoint == "fetch_posts"
Edges ==
    [fetch_posts        |-> "analyze_candidates",
     analyze_candidates |-> "route_candidates",
     route_candidates   |-> "END"]

\* fetch_posts_node, the Reddit block
FetchReddit(w, since, now) ==
    IF since # <<>> THEN RedditFetchNewPostsSince(w.reddit, since[1], now)
    ELSE RedditFetchRecentPosts(w.reddit, now)

\* fetch_posts_node, the X block
FetchX(w, since, now) ==
    IF since # <<>> THEN XFetchNewPostsSince(w.x, since[1], now)
    ELSE XFetchRecentPosts(w.x, now)

\* fetch_posts_node: the update it returns
FetchPostsUpdate(w, since, old_stats, now) ==
    LET reddit == FetchReddit(w, since, now)
        x == FetchX(w, since, now)
        from_reddit == IF reddit.raised THEN <<>> ELSE reddit.value
        reddit_errors == IF reddit.raised
                         THEN <<ErrorString("Reddit fetch error", <<>>)>> ELSE <<>>
        from_x == IF w.x_enabled /\ ~x.raised THEN x.value ELSE <<>>
        x_errors == IF w.x_enabled /\ x.raised
                    THEN <<ErrorString("X fetch error", <<>>)>> ELSE <<>>
        fetched == from_reddit \o from_x
    IN  [candidates |-> fetched,
         errors     |-> reddit_errors \o x_errors,
         stats      |-> Merge(old_stats, [candidates_fetched |-> Len(fetched)])]

AnalyzeOneKeepsScore(candidate, outcome) ==
    LET result == Analyze(candidate, outcome)
    IN  IF ~result.raised THEN [candidate |-> result.candidate, errors |-> <<>>]
        ELSE [candidate |-> [result.candidate EXCEPT !.status = "ERROR"],
              errors |-> <<ErrorString("Analysis error", candidate.source_id)>>]

\* analyze_candidates_node, one iteration of its loop
AnalyzeOne(candidate, outcome) ==
    LET result == Analyze(candidate, outcome)
    IN  IF ~result.raised THEN [candidate |-> result.candidate, errors |-> <<>>]
        ELSE [candidate |-> [result.candidate EXCEPT !.confidence_score = 0,
                                                     !.status = "ERROR"],
              errors |-> <<ErrorString("Analysis error", candidate.source_id)>>]

RECURSIVE AnalyzeLoopAborts(_, _)
AnalyzeLoopAborts(cands, outs) ==
    IF cands = <<>> THEN [analyzed |-> <<>>, errors |-> <<>>]
    ELSE LET one == AnalyzeOne(Head(cands), Head(outs))
             rest == IF one.errors # <<>> THEN [analyzed |-> <<>>, errors |-> <<>>]
                     ELSE AnalyzeLoopAborts(Tail(cands), Tail(outs))
         IN  [analyzed |-> <<one.candidate>> \o rest.analyzed,
              errors   |-> one.errors \o rest.errors]

\* analyze_candidates_node, its loop
RECURSIVE AnalyzeLoop(_, _)
AnalyzeLoop(cands, outs) ==
    IF cands = <<>> THEN [analyzed |-> <<>>, errors |-> <<>>]
    ELSE LET one == AnalyzeOne(Head(cands), Head(outs))
             rest == AnalyzeLoop(Tail(cands), Tail(outs))
         IN  [analyzed |-> <<one.candidate>> \o rest.analyzed,
              errors   |-> one.errors \o rest.errors]

\* analyze_candidates_node: the update it returns
AnalyzeCandidatesUpdate(cands, outs, old_stats) ==
    LET loop == AnalyzeLoop(cands, outs)
    IN  [analyzed_candidates |-> loop.analyzed,
         errors              |-> loop.errors,
         stats |-> Merge(old_stats, [candidates_analyzed |-> Len(loop.analyzed)])]

IsValidIgnoringStatus(candidate) == candidate.confidence_score >= RouteThreshold

IsValidAboveThreshold(candidate) ==
    candidate.confidence_score > RouteThreshold /\ candidate.status # "REJECTED"

\* route_candidates_node: the test of its loop
IsValid(candidate) ==
    candidate.confidence_score >= RouteThreshold /\ candidate.status # "REJECTED"

IsRejected(candidate) == ~IsValid(candidate)

\* route_candidates_node: the update it returns
RouteCandidatesUpdate(analyzed, old_stats) ==
    LET valid == SelectSeq(analyzed, IsValid)
        rejected == SelectSeq(analyzed, IsRejected)
    IN  [valid_candidates    |-> valid,
         rejected_candidates |-> rejected,
         stats |-> Merge(old_stats, [valid_count    |-> Len(valid),
                                     rejected_count |-> Len(rejected)])]


(***************************************************************************)
(* main.py: the watermark file and the candidate file                      *)
(***************************************************************************)
\* datetime.isoformat() of a timezone-aware UTC datetime: the stamp and its offset
IsoFormat(t) == [stamp |-> t, suffix |-> <<"+00:00">>]

\* s + "Z"
PlusZ(s) == [s EXCEPT !.suffix = Append(@, "Z")]

\* str.replace('+00:00+00:00', '+00:00') on the suffix
RECURSIVE ReplaceDoubleOffset(_)
ReplaceDoubleOffset(suffix) ==
    IF suffix = <<>> THEN <<>>
    ELSE IF Len(suffix) >= 2 /\ suffix[1] = "+00:00" /\ suffix[2] = "+00:00"
    THEN <<"+00:00">> \o ReplaceDoubleOffset(SubSeq(suffix, 3, Len(suffix)))
    ELSE <<Head(suffix)>> \o ReplaceDoubleOffset(Tail(suffix))

LoadLastCheckKeepsDouble(file) ==
    IF file = <<>> THEN <<>>
    ELSE LET s0 == file[1].suffix
             s1 == IF s0 # <<>> /\ s0[Len(s0)] = "Z"
                   THEN SubSeq(s0, 1, Len(s0) - 1) \o <<"+00:00">> ELSE s0
         IN  IF s1 = <<>> \/ s1 = <<"+00:00">> THEN <<file[1].stamp>> ELSE <<>>

LoadLastCheckStrict(file) ==
    IF file = <<>> THEN <<>>
    ELSE IF file[1].suffix \in {<<>>, <<"+00:00">>} THEN <<file[1].stamp>>
    ELSE <<>>

\* RobotaxiAgent._load_last_check; a file that is absent or not JSON is <<>>
LoadLastCheck(file) ==
    IF file = <<>> THEN <<>>
    ELSE LET s0 == file[1].suffix
             s1 == IF s0 # <<>> /\ s0[Len(s0)] = "Z"
                   THEN SubSeq(s0, 1, Len(s0) - 1) \o <<"+00:00">> ELSE s0
             s2 == IF Cardinality({i \in DOMAIN s1 : s1[i] = "+00:00"}) > 1
                   THEN ReplaceDoubleOffset(s1) ELSE s1
         IN  IF s2 = <<>> \/ s2 = <<"+00:00">> THEN <<file[1].stamp>> ELSE <<>>

\* RobotaxiAgent._save_last_check: what a successful write leaves in the file
SaveLastCheck(timestamp) == <<PlusZ(IsoFormat(timestamp))>>

\* SightingCandidate.model_dump(mode='json'), with serialize_datetime
ModelDump(candidate) ==
    [candidate EXCEPT !.timestamp_detected = PlusZ(IsoFormat(@))]

\* RobotaxiAgent._load_existing_candidates; a file that is absent or not JSON is <<>>
LoadExistingCandidates(file) == file

\* RobotaxiAgent._save_candidates, the loop; existing_dict is built once before it
RECURSIVE SaveLoop(_, _, _)
SaveLoop(existing, existing_dict, cands) ==
    IF cands = <<>> THEN existing
    ELSE LET candidate_dict == ModelDump(Head(cands))
             source_id == Head(cands).source_id
         IN  IF source_id \notin existing_dict
             THEN SaveLoop(Append(existing, candidate_dict), existing_dict, Tail(cands))
             ELSE LET existing_index ==
                          Min({i \in DOMAIN existing : existing[i].source_id = source_id})
                  IN  SaveLoop([existing EXCEPT ![existing_index] = candidate_dict],
                               existing_dict, Tail(cands))

SaveCandidatesAppendOnly(file, cands) ==
    LoadExistingCandidates(file) \o [i \in DOMAIN cands |-> ModelDump(cands[i])]

\* RobotaxiAgent._save_candidates: what a successful write leaves in the file
SaveCandidates(file, cands) ==
    LET existing == LoadExistingCandidates(file)
    IN  SaveLoop(existing, {existing[i].source_id : i \in DOMAIN existing}, cands)


(***************************************************************************)
(* The environment: the posts the sources can return, the answers of the   *)
(* sources in one cycle, and the answers of the model API.                 *)
(***************************************************************************)
RedditPost(id, title, selftext, created_utc) ==
    [id |-> id, title |-> title, selftext |-> selftext, created_utc |-> created_utc]

SearchResult(title, snippet, link) ==
    [title |-> title, snippet |-> snippet, link |-> link]

\* "LiDAR" matches a keyword only case-insensitively; "test" + "vehicle" match only
\* across the blank that joins title and body; "car" matches nothing and is the
\* oldest post
RedditPool ==
    {RedditPost("r1", <<"L","i","D","A","R">>, <<>>, 3),
     RedditPost("r2", <<"t","e","s","t">>, <<"v","e","h","i","c","l","e">>, 2),
     RedditPost("r3", <<"c","a","r">>, <<>>, 1)}

\* two results whose links hold no /status/<digits> both become "x_unknown"
XPool ==
    {SearchResult(<<"C","y","b","e","r","c","a","b">>, <<>>, <<"x.com", "u", "status", "123">>),
     SearchResult(<<"r","o","b","o","t","a","x","i">>, <<>>, <<"x.com", "u">>),
     SearchResult(<<"R","O","B","O","T","A","X","I">>, <<>>, <<"x.com", "u", "status", "abc">>),
     SearchResult(<<"h","e","l","l","o">>, <<>>, <<"x.com", "v", "status", "456">>)}

\* the sequences without repetition of at most n elements of S
Pages(S, n) ==
    UNION {{p \in [1..k -> S] : \A i, j \in 1..k : i # j => p[i] # p[j]} : k \in 0..n}

Responses(S) == {FailedResponse, BrokenResponse} \cup {Page(p) : p \in Pages(S, MaxPage)}

QuietWorld ==
    [reddit |-> [i \in DOMAIN SUBREDDITS |-> Page(<<>>)], x |-> Page(<<>>),
     x_enabled |-> FALSE]

PostsOf(response) == {response.posts[i] : i \in DOMAIN response.posts}

Cost(response) == IF response.kind = "ok" THEN 0 ELSE 1

RECURSIVE Sum(_, _)
Sum(f, n) == IF n = 0 THEN 0 ELSE f[n] + Sum(f, n - 1)

\* the posts and the failures in a sequence of answers
NPosts(answers) == Sum([i \in DOMAIN answers |-> Len(answers[i].posts)], Len(answers))
NFaults(answers) == Sum([i \in DOMAIN answers |-> Cost(answers[i])], Len(answers))

\* the answers of the first n subreddits that hold at most p posts and f failures;
\* a post is in one subreddit
RECURSIVE RedditAnswers(_, _, _)
RedditAnswers(n, p, f) ==
    IF n = 0 THEN {<<>>}
    ELSE UNION {{Append(before, r) : r \in
                    {r \in Responses(RedditPool) :
                        /\ NPosts(before) + Len(r.posts) <= p
                        /\ NFaults(before) + Cost(r) <= f
                        /\ \A i \in DOMAIN before : PostsOf(before[i]) \cap PostsOf(r) = {}}}
                : before \in RedditAnswers(n - 1, p, f)}

\* the answers of all sources in one cycle that hold at most p posts and f failures;
\* x_enabled is Config.GOOGLE_API_KEY and Config.GOOGLE_CSE_ID
WorldsWithin(p, f) ==
    UNION {{[reddit |-> reddit, x |-> x, x_enabled |-> TRUE] : x \in
                {x \in Responses(XPool) :
                    /\ NPosts(reddit) + Len(x.posts) <= p
                    /\ NFaults(reddit) + Cost(x) <= f}}
           \cup {[reddit |-> reddit, x |-> Page(<<>>), x_enabled |-> FALSE]}
           : reddit \in RedditAnswers(Len(SUBREDDITS), p, f)}

WorldPosts(w) == NPosts(w.reddit) + Len(w.x.posts)
WorldFaults(w) == NFaults(w.reddit) + Cost(w.x)

ConfidenceValues == {4, 5, 15}

\* the JSON object of a completion
VerdictOf(is_valid_sighting, confidence, bad_field, fields) ==
    [is_valid_sighting |-> is_valid_sighting, confidence |-> confidence,
     bad_field |-> bad_field,
     license_plate |-> fields.license_plate, vehicle_type |-> fields.vehicle_type,
     vehicle_color |-> fields.vehicle_color, location |-> fields.location,
     reasoning |-> "model"]

Fields(license_plate, vehicle_type, vehicle_color, location) ==
    [license_plate |-> license_plate, vehicle_type |-> vehicle_type,
     vehicle_color |-> vehicle_color, location |-> location]

\* the fields the model reports in the cycles of a whole run
SightingFields ==
    Fields(<<"934MFG231">>, <<<<"C","y","b","e","r"," ","C","a","b">>>>, <<>>,
           <<<<"A","u","s","t","i","n",","," ","T","X">>>>)

Verdict(is_valid_sighting, confidence, bad_field) ==
    VerdictOf(is_valid_sighting, confidence, bad_field, SightingFields)

Verdicts ==
    {Verdict("true", c, b) : c \in ConfidenceValues, b \in BOOLEAN}
    \cup {Verdict("false", c, FALSE) : c \in ConfidenceValues}
    \cup {Verdict("missing", 0, FALSE)}

ApiOutcomes ==
    {[api |-> a, verdict |-> Verdict("missing", 0, FALSE)] : a \in {"raise", "empty", "badjson"}}
    \cup {[api |-> "ok", verdict |-> v] : v \in Verdicts}

EmptyDict == [k \in {} |-> 0]

(***************************************************************************)
(* The process.  The external scheduler starts it; RobotaxiAgent.__init__  *)
(* reads the watermark and run_once runs one cycle.                        *)
(***************************************************************************)
Init ==
    /\ pc = "idle"
    /\ cycle = 0
    /\ clock = 0
    /\ state_file = <<>>
    /\ output_file = <<>>
    /\ last_check = <<>>
    /\ candidates = <<>>
    /\ analyzed_candidates = <<>>
    /\ valid_candidates = <<>>
    /\ rejected_candidates = <<>>
    /\ errors = <<>>
    /\ stats = EmptyDict
    /\ world = QuietWorld
    /\ outcomes = <<>>
    /\ visited = <<>>
    /\ ret = <<>>
    /\ lc_write = "none"
    /\ prev_output = <<>>
    /\ posts_left = MaxPosts
    /\ faults_left = MaxFaults

\* main: RobotaxiAgent() and the initial_state of run_once
StartCycle ==
    /\ pc = "idle"
    /\ cycle < MaxCycles
    /\ cycle' = cycle + 1
    /\ last_check' = LoadLastCheck(state_file)
    /\ candidates' = <<>>
    /\ analyzed_candidates' = <<>>
    /\ valid_candidates' = <<>>
    /\ rejected_candidates' = <<>>
    /\ errors' = <<>>
    /\ stats' = EmptyDict
    /\ visited' = <<>>
    /\ lc_write' = "none"
    /\ outcomes' = <<>>
    /\ pc' = EntryPoint
    /\ UNCHANGED <<clock, state_file, output_file, world, ret, prev_output,
                   posts_left, faults_left>>

\* the node fetch_posts against the answers w of the sources
FetchPostsWith(w) ==
    LET update == FetchPostsUpdate(w, last_check, stats, clock + 1)
    IN  /\ clock' = clock + 1
        /\ candidates' = update.candidates
        /\ errors' = OperatorAdd(errors, update.errors)
        /\ stats' = update.stats
        /\ world' = w
        /\ visited' = Append(visited, pc)
        /\ pc' = Edges[pc]

FetchPostsNode ==
    /\ pc = "fetch_posts"
    /\ \E w \in WorldsWithin(posts_left, faults_left) :
          /\ FetchPostsWith(w)
          /\ posts_left' = posts_left - WorldPosts(w)
          /\ faults_left' = faults_left - WorldFaults(w)
    /\ UNCHANGED <<cycle, state_file, output_file, last_check, analyzed_candidates,
                   valid_candidates, rejected_candidates, outcomes, ret, lc_write,
                   prev_output>>

\* the node analyze_candidates against the answers outs of the model API; the
\* candidates are the objects of state["candidates"]
AnalyzeCandidatesWith(outs) ==
    LET update == AnalyzeCandidatesUpdate(candidates, outs, stats)
    IN  /\ analyzed_candidates' = update.analyzed_candidates
        /\ candidates' = update.analyzed_candidates
        /\ errors' = OperatorAdd(errors, update.errors)
        /\ stats' = update.stats
        /\ outcomes' = outs

AnalyzeCandidatesNode ==
    /\ pc = "analyze_candidates"
    /\ \E outs \in [DOMAIN candidates -> ApiOutcomes] : AnalyzeCandidatesWith(outs)
    /\ visited' = Append(visited, pc)
    /\ pc' = Edges[pc]
    /\ world' = QuietWorld
    /\ UNCHANGED <<cycle, clock, state_file, output_file, last_check, valid_candidates,
                   rejected_candidates, ret, lc_write, prev_output, posts_left,
                   faults_left>>

\* the node route_candidates
RouteCandidatesNode ==
    /\ pc = "route_candidates"
    /\ LET update == RouteCandidatesUpdate(analyzed_candidates, stats)
       IN  /\ valid_candidates' = update.valid_candidates
           /\ rejected_candidates' = update.rejected_candidates
           /\ stats' = update.stats
    /\ visited' = Append(visited, pc)
    /\ pc' = Edges[pc]
    /\ UNCHANGED <<cycle, clock, state_file, output_file, last_check, candidates,
                   analyzed_candidates, errors, world, outcomes, ret, lc_write,
                   prev_output, posts_left, faults_left>>

UpdateLastCheckWhenValid ==
    /\ pc = "END"
    /\ IF valid_candidates = <<>>
       THEN UNCHANGED <<clock, last_check, state_file, lc_write>>
       ELSE /\ clock' = clock + 1
            /\ last_check' = <<clock'>>
            /\ state_file' = SaveLastCheck(clock')
            /\ lc_write' = "ok"
    /\ pc' = "save_valid"
    /\ UNCHANGED <<cycle, output_file, candidates, analyzed_candidates, valid_candidates,
                   rejected_candidates, errors, stats, world, outcomes, visited, ret,
                   prev_output, posts_left, faults_left>>

\* run_once after graph.invoke: self.last_check = now and _save_last_check, whose
\* failed write is logged and leaves the file as it was or truncated
UpdateLastCheck ==
    /\ pc = "END"
    /\ clock' = clock + 1
    /\ last_check' = <<clock'>>
    /\ \/ /\ state_file' = SaveLastCheck(clock')
          /\ lc_write' = "ok"
          /\ UNCHANGED faults_left
       \/ /\ faults_left > 0
          /\ faults_left' = faults_left - 1
          /\ state_file' \in {state_file, <<>>}
          /\ lc_write' = "failed"
    /\ pc' = "save_valid"
    /\ UNCHANGED <<cycle, output_file, candidates, analyzed_candidates, valid_candidates,
                   rejected_candidates, errors, stats, world, outcomes, visited, ret,
                   prev_output, posts_left>>

SaveValidRollsBack ==
    /\ pc = "save_valid"
    /\ \/ /\ valid_candidates # <<>>
          /\ output_file' = SaveCandidates(output_file, valid_candidates)
          /\ ret' = <<Len(valid_candidates)>>
          /\ UNCHANGED <<faults_left, state_file, last_check>>
       \/ /\ valid_candidates # <<>>
          /\ faults_left > 0
          /\ faults_left' = faults_left - 1
          /\ output_file' \in {output_file, <<>>}
          /\ state_file' = <<>>
          /\ last_check' = <<>>
          /\ ret' = <<0>>
       \/ /\ valid_candidates = <<>>
          /\ ret' = <<Len(valid_candidates)>>
          /\ UNCHANGED <<output_file, faults_left, state_file, last_check>>
    /\ prev_output' = output_file
    /\ pc' = "idle"
    /\ UNCHANGED <<cycle, clock, candidates, analyzed_candidates, valid_candidates,
                   rejected_candidates, errors, stats, world, outcomes, visited,
                   lc_write, posts_left>>

\* run_once: _save_candidates for a non-empty valid list, and the return; a write
\* that raises leaves the file as it was or truncated and run_once returns 0
SaveValid ==
    /\ pc = "save_valid"
    /\ \/ /\ valid_candidates # <<>>
          /\ output_file' = SaveCandidates(output_file, valid_candidates)
          /\ ret' = <<Len(valid_candidates)>>
          /\ UNCHANGED faults_left
       \/ /\ valid_candidates # <<>>
          /\ faults_left > 0
          /\ faults_left' = faults_left - 1
          /\ output_file' \in {output_file, <<>>}
          /\ ret' = <<0>>
       \/ /\ valid_candidates = <<>>
          /\ ret' = <<Len(valid_candidates)>>
          /\ UNCHANGED <<output_file, faults_left>>
    /\ prev_output' = output_file
    /\ pc' = "idle"
    /\ UNCHANGED <<cycle, clock, state_file, last_check, candidates, analyzed_candidates,
                   valid_candidates, rejected_candidates, errors, stats, world, outcomes,
                   visited, lc_write, posts_left>>

Next ==
    \/ StartCycle
    \/ FetchPostsNode
    \/ AnalyzeCandidatesNode
    \/ RouteCandidatesNode
    \/ UpdateLastCheck
    \/ SaveValid

Spec == Init /\ [][Next]_vars


(***************************************************************************)
(* The fetch stage alone, from the start of a cycle with any watermark and *)
(* more posts and failures than a whole run of Spec holds.                 *)
(***************************************************************************)
MaxWatermark == 3     \* the largest watermark a fetch starts from
MaxFetchPosts == 3    \* posts returned by all sources in the fetch
MaxFetchFaults == 2   \* failed requests and raising pollers in the fetch

InitFetch ==
    /\ pc = EntryPoint
    /\ cycle = 1
    /\ last_check \in {<<>>} \cup {<<t>> : t \in 0..MaxWatermark}
    /\ clock = IF last_check = <<>> THEN 0 ELSE last_check[1]
    /\ state_file = IF last_check = <<>> THEN <<>> ELSE SaveLastCheck(last_check[1])
    /\ output_file = <<>>
    /\ candidates = <<>>
    /\ analyzed_candidates = <<>>
    /\ valid_candidates = <<>>
    /\ rejected_candidates = <<>>
    /\ errors = <<>>
    /\ stats = EmptyDict
    /\ world = QuietWorld
    /\ outcomes = <<>>
    /\ visited = <<>>
    /\ ret = <<>>
    /\ lc_write = "none"
    /\ prev_output = <<>>
    /\ posts_left = MaxFetchPosts
    /\ faults_left = MaxFetchFaults

NextFetch == FetchPostsNode

SpecFetch == InitFetch /\ [][NextFetch]_vars

(***************************************************************************)
(* The last step of run_once alone, from any candidate file and any valid  *)
(* list that cycles can leave: only the source_id "x_unknown" repeats, in  *)
(* the file or in the list.                                                *)
(***************************************************************************)
MaxStore == 2   \* records in the candidate file before the step
MaxBatch == 2   \* candidates in the valid list

\* the valid candidates that the posts of the pools give when detected at time now
ValidCandidatesAt(now) ==
    {[c EXCEPT !.confidence_score = score] :
        c \in {PostToCandidate(post, now) : post \in {q \in RedditPool : q.id = "r1"}}
              \cup {SearchResultToCandidate(r, now) :
                      r \in {q \in XPool : ExtractTweetIdFromUrl(q.link) = <<>>}},
        score \in {5, 15}}

RepeatsOnlyUnknown(seq) ==
    \A i, j \in DOMAIN seq :
        i # j /\ seq[i].source_id = seq[j].source_id => seq[i].source_id = <<"x", "unknown">>

SeqsUpTo(S, n) == UNION {[1..k -> S] : k \in 0..n}

InitSave ==
    /\ pc = "save_valid"
    /\ cycle = 2
    /\ clock = 4
    /\ last_check = <<clock>>
    /\ state_file = SaveLastCheck(clock)
    /\ lc_write = "ok"
    /\ output_file \in {f \in SeqsUpTo({ModelDump(c) : c \in ValidCandidatesAt(1)}, MaxStore) :
                          RepeatsOnlyUnknown(f)}
    /\ valid_candidates \in {b \in SeqsUpTo(ValidCandidatesAt(3), MaxBatch) :
                               RepeatsOnlyUnknown(b)}
    /\ candidates = valid_candidates
    /\ analyzed_candidates = valid_candidates
    /\ rejected_candidates = <<>>
    /\ errors = <<>>
    /\ stats = [candidates_fetched  |-> Len(valid_candidates),
                candidates_analyzed |-> Len(valid_candidates),
                valid_count         |-> Len(valid_candidates),
                rejected_count      |-> 0]
    /\ world = QuietWorld
    /\ outcomes = <<>>
    /\ visited = <<"fetch_posts", "analyze_candidates", "route_candidates">>
    /\ ret = <<>>
    /\ prev_output = <<>>
    /\ posts_left = 0
    /\ faults_left \in {0, 1}

NextSave == SaveValid

SpecSave == InitSave /\ [][NextSave]_vars

(***************************************************************************)
(* The start of the process alone, from a watermark file that holds any    *)
(* spelling of a timestamp: the stamp followed by up to MaxSuffix offsets  *)
(* "+00:00" and letters "Z".                                               *)
(***************************************************************************)
MaxStamp == 3    \* the largest instant in the watermark file
MaxSuffix == 3   \* offsets and letters that follow the stamp

Spellings ==
    {[stamp |-> t, suffix |-> sfx] :
        t \in 0..MaxStamp, sfx \in SeqsUpTo({"+00:00", "Z"}, MaxSuffix)}

InitLoad ==
    /\ pc = "idle"
    /\ cycle = 0
    /\ clock = MaxStamp
    /\ state_file \in {<<>>} \cup {<<s>> : s \in Spellings}
    /\ output_file = <<>>
    /\ last_check = <<>>
    /\ candidates = <<>>
    /\ analyzed_candidates = <<>>
    /\ valid_candidates = <<>>
    /\ rejected_candidates = <<>>
    /\ errors = <<>>
    /\ stats = EmptyDict
    /\ world = QuietWorld
    /\ outcomes = <<>>
    /\ visited = <<>>
    /\ ret = <<>>
    /\ lc_write = "none"
    /\ prev_output = <<>>
    /\ posts_left = 0
    /\ faults_left = 0

NextLoad == StartCycle

SpecLoad == InitLoad /\ [][NextLoad]_vars

(***************************************************************************)
(* The analyze stage alone, from the candidates of a fetch, with a model   *)
(* API that reports any of a set of field values.                          *)
(***************************************************************************)
MaxAnalyze == 1   \* candidates given to the analyze stage

VehicleTypeValues ==
    {<<>>,
     <<<<"C","y","b","e","r"," ","C","a","b">>>>,
     <<<<"C","Y","B","E","R","C","A","B">>>>,
     <<<<"M","o","d","e","l","-","Y">>>>,
     <<<<"S","e","m","i">>>>,
     <<<<" ","m","o","d","e","l","y"," ">>>>,
     <<<<"M","o","d","e","l"," ","3">>>>,
     <<<<>>>>}

LocationValues ==
    {<<>>,
     <<<<"A","u","s","t","i","n",","," ","T","X">>>>,
     <<<<"A","u","s","t","i","n">>>>}

FieldValues ==
    {Fields(lp, vt, vc, loc) :
        lp \in {<<>>, <<"934MFG231">>}, vt \in VehicleTypeValues,
        vc \in {<<>>, <<"white">>}, loc \in LocationValues}

ModelAnswers ==
    {[api |-> a, verdict |-> Verdict("missing", 0, FALSE)] : a \in {"raise", "empty", "badjson"}}
    \cup {[api |-> "ok", verdict |-> VerdictOf(v, c, FALSE, f)] :
            v \in {"true", "false"}, c \in {4, 5}, f \in FieldValues}
    \cup {[api |-> "ok", verdict |-> Verdict("true", 5, TRUE)]}

\* the candidates the pollers make of the posts of the pools at time now
FetchedCandidatesAt(now) ==
    {PostToCandidate(post, now) :
        post \in {q \in RedditPool : ContainsKeywords(Combined(q.title, q.selftext))}}
    \cup {SearchResultToCandidate(r, now) :
            r \in {q \in XPool : XContainsKeywords(Combined(q.title, q.snippet))}}

InitAnalyze ==
    /\ pc = "analyze_candidates"
    /\ cycle = 1
    /\ clock = 1
    /\ state_file = <<>>
    /\ output_file = <<>>
    /\ last_check = <<>>
    /\ candidates \in SeqsUpTo(FetchedCandidatesAt(clock), MaxAnalyze)
    /\ analyzed_candidates = <<>>
    /\ valid_candidates = <<>>
    /\ rejected_candidates = <<>>
    /\ errors = <<>>
    /\ stats = [candidates_fetched |-> Len(candidates)]
    /\ world = QuietWorld
    /\ outcomes = <<>>
    /\ visited = <<"fetch_posts">>
    /\ ret = <<>>
    /\ lc_write = "none"
    /\ prev_output = <<>>
    /\ posts_left = 0
    /\ faults_left = 0

\* the node analyze_candidates, the model API reporting any of the field values
AnalyzeModelAnswers ==
    /\ pc = "analyze_candidates"
    /\ \E outs \in [DOMAIN candidates -> ModelAnswers] : AnalyzeCandidatesWith(outs)
    /\ visited' = Append(visited, pc)
    /\ pc' = Edges[pc]
    /\ world' = QuietWorld
    /\ UNCHANGED <<cycle, clock, state_file, output_file, last_check, valid_candidates,
                   rejected_candidates, ret, lc_write, prev_output, posts_left,
                   faults_left>>

NextAnalyze == AnalyzeModelAnswers

SpecAnalyze == InitAnalyze /\ [][NextAnalyze]_vars

(***************************************************************************)
(* Properties.                                                             *)
(***************************************************************************)
Count(seq, x) == Cardinality({i \in DOMAIN seq : seq[i] = x})

Routed == visited = <<"fetch_posts", "analyze_candidates", "route_candidates">>

\* C1: after ROUTE every analyzed candidate is in exactly one of valid and rejected,
\* and it is in valid exactly when its confidence is at least 0.5 and its status is
\* not REJECTED; so a REJECTED candidate is never in valid
C1_RoutePartition ==
    Routed =>
        /\ \A i \in DOMAIN analyzed_candidates :
               LET c == analyzed_candidates[i]
                   n == Count(analyzed_candidates, c)
               IN  IF c.confidence_score >= 5 /\ c.status # "REJECTED"
                   THEN Count(valid_candidates, c) = n /\ Count(rejected_candidates, c) = 0
                   ELSE Count(valid_candidates, c) = 0 /\ Count(rejected_candidates, c) = n
        /\ Len(valid_candidates) + Len(rejected_candidates) = Len(analyzed_candidates)
        /\ \A i \in DOMAIN valid_candidates : valid_candidates[i].status # "REJECTED"

\* a candidate scored exactly 0.5 is valid, next to a REJECTED one scored above it
C1_Witness ==
    /\ Routed
    /\ \E i \in DOMAIN valid_candidates : valid_candidates[i].confidence_score = 5
    /\ \E i \in DOMAIN rejected_candidates :
           /\ rejected_candidates[i].status = "REJECTED"
           /\ rejected_candidates[i].confidence_score > 5

Analyzed == pc = "route_candidates"

AnalysisErrorsFor(source_id) ==
    Cardinality({j \in DOMAIN errors :
                    errors[j].kind = "Analysis error" /\ errors[j].source_id = source_id})

Saved == pc = "idle" /\ ret # <<>> /\ ret[1] > 0

SourceIds(seq) == {seq[i].source_id : i \in DOMAIN seq}

\* the candidates of the valid list whose source_id the file did not hold, in order
NewOnes == SelectSeq(valid_candidates, LAMBDA c : c.source_id \notin SourceIds(prev_output))

\* C3: _save_candidates is an upsert by source_id.  A candidate whose source_id the
\* file held replaces the record of that source_id at its position (the first one
\* when the file held several); the candidates whose source_id the file did not hold
\* are appended at the end, the length growing by one for each; every record of
\* another source_id keeps its content and position.  For a candidate that is the
\* only one of its source_id in the valid list the new record is its data.
C3_Upsert ==
    Saved =>
        /\ Len(output_file) = Len(prev_output) + Len(NewOnes)
        /\ \A k \in DOMAIN NewOnes :
               output_file[Len(prev_output) + k] = ModelDump(NewOnes[k])
        /\ \A i \in DOMAIN prev_output :
               LET first == Min({j \in DOMAIN prev_output :
                                    prev_output[j].source_id = prev_output[i].source_id})
                   same == {k \in DOMAIN valid_candidates :
                               valid_candidates[k].source_id = prev_output[i].source_id}
               IN  /\ same = {} \/ i # first => output_file[i] = prev_output[i]
                   /\ same # {} /\ i = first =>
                          \E k \in same : output_file[i] = ModelDump(valid_candidates[k])
                   /\ Cardinality(same) = 1 /\ i = first =>
                          \A k \in same : output_file[i] = ModelDump(valid_candidates[k])

\* a record is replaced by different data in front of a record that stays, and
\* another candidate is appended
C3_Witness ==
    /\ Saved
    /\ Len(prev_output) = 2
    /\ Len(output_file) = 3
    /\ output_file[1] # prev_output[1]
    /\ output_file[1].source_id = prev_output[1].source_id
    /\ output_file[2] = prev_output[2]

\* C4: the candidate file holds at most one record per source_id
C4_PrimaryKey ==
    \A i, j \in DOMAIN output_file :
        output_file[i].source_id = output_file[j].source_id => i = j

\* C5: once ANALYZE has processed the candidates, every confidence_score is in [0,1]
C5_ConfidenceInRange ==
    \A i \in DOMAIN analyzed_candidates :
        /\ analyzed_candidates[i].confidence_score >= 0
        /\ analyzed_candidates[i].confidence_score <= 10


\* FETCH has run and ANALYZE has not: candidates is what the Analyzer will be given
Fetched == pc = "analyze_candidates"

\* the text holds a configured keyword as a case-insensitive substring
MentionsKeyword(text) ==
    \E k \in DOMAIN KEYWORDS : \E i \in DOMAIN text :
        /\ i + Len(KEYWORDS[k]) - 1 <= Len(text)
        /\ \A j \in DOMAIN KEYWORDS[k] :
               LowerChar(text[i + j - 1]) = LowerChar(KEYWORDS[k][j])

ListedPosts == UNION {PostsOf(world.reddit[i]) : i \in DOMAIN SUBREDDITS}
SearchResults == PostsOf(world.x)

FromPost(c, post) ==
    /\ c.source_id = <<"reddit", post.id>>
    /\ c.raw_text = Truncate(Combined(post.title, post.selftext), 500)

FromResult(c, result) ==
    /\ c.source_id[1] = "x"
    /\ c.raw_text = Truncate(Combined(result.title, result.snippet), 500)

\* C6: every candidate that reaches ANALYZE comes from a post whose title and body
\* (or title and snippet), joined, hold a keyword as a case-insensitive substring;
\* a post that holds none gives no candidate, with or without a watermark
C6_KeywordGate ==
    Fetched =>
        /\ \A i \in DOMAIN candidates :
               \/ \E post \in ListedPosts :
                      /\ FromPost(candidates[i], post)
                      /\ MentionsKeyword(Combined(post.title, post.selftext))
               \/ \E result \in SearchResults :
                      /\ FromResult(candidates[i], result)
                      /\ MentionsKeyword(Combined(result.title, result.snippet))
        /\ \A post \in ListedPosts :
               ~MentionsKeyword(Combined(post.title, post.selftext)) =>
                   \A i \in DOMAIN candidates : ~FromPost(candidates[i], post)
        /\ \A result \in SearchResults :
               ~MentionsKeyword(Combined(result.title, result.snippet)) =>
                   \A i \in DOMAIN candidates : ~FromResult(candidates[i], result)

\* on the incremental path a listing holds a post that matches only without regard
\* to case in front of one that matches nothing, and only the first is a candidate
C6_Witness ==
    /\ Fetched
    /\ last_check = <<0>>
    /\ \E i \in DOMAIN SUBREDDITS :
           /\ Len(world.reddit[i].posts) = 2
           /\ world.reddit[i].posts[1].id = "r1"
           /\ world.reddit[i].posts[2].id = "r3"
    /\ \E i \in DOMAIN candidates : candidates[i].source_id = <<"reddit", "r1">>
    /\ \A i \in DOMAIN candidates : candidates[i].source_id # <<"reddit", "r3">>

\* C7: only valid candidates are persisted.  Every record of the candidate file has
\* confidence_score >= 0.5 and status PENDING_REVIEW; what a cycle writes is the file
\* it found with records of its valid list; a cycle whose valid list is empty leaves
\* the file unchanged
C7_OnlyValidPersisted ==
    /\ \A i \in DOMAIN output_file :
           /\ output_file[i].confidence_score >= 5
           /\ output_file[i].status = "PENDING_REVIEW"
    /\ Saved =>
           \A i \in DOMAIN output_file :
               \/ i \in DOMAIN prev_output /\ output_file[i] = prev_output[i]
               \/ \E k \in DOMAIN valid_candidates :
                      output_file[i] = ModelDump(valid_candidates[k])
    /\ pc = "idle" /\ cycle > 0 /\ valid_candidates = <<>> => output_file = prev_output

\* a cycle with a valid and a rejected candidate has written the file
C7_Witness ==
    /\ Saved
    /\ rejected_candidates # <<>>
    /\ Len(output_file) = Len(valid_candidates)

CycleEnded == pc = "idle" /\ cycle > 0

C9_StageOrder ==
    /\ pc \in {"idle", "fetch_posts", "analyze_candidates", "route_candidates", "END",
               "save_valid"}
    /\ pc = "fetch_posts" => visited = <<>>
    /\ pc = "analyze_candidates" => visited = <<"fetch_posts">>
    /\ pc = "route_candidates" => visited = <<"fetch_posts", "analyze_candidates">>
    /\ pc \in {"END", "save_valid"} \/ CycleEnded => Routed

\* the graph of the second cycle has reached its end
C9_Witness == pc = "END" /\ Routed /\ cycle = 2

\* the loop of fetch_new_posts_since reaches a post: no post before it, nor the post,
\* is as old as the watermark
Reached(posts, n) ==
    last_check = <<>> \/ \A m \in 1..n : posts[m].created_utc > last_check[1]

\* C10: a failure of one source does not abort the others.  When no subreddit makes
\* the Reddit poller raise, every subreddit whose request succeeded gives its
\* candidates, whatever requests of other subreddits failed and whatever the search
\* poller did; when the search succeeded it gives its candidates, whatever the Reddit
\* poller did
C10_FailureIsolation ==
    Fetched =>
        /\ (\A i \in DOMAIN SUBREDDITS : world.reddit[i].kind # "raise") =>
               \A i \in DOMAIN SUBREDDITS : \A n \in DOMAIN world.reddit[i].posts :
                   LET post == world.reddit[i].posts[n]
                   IN  /\ Reached(world.reddit[i].posts, n)
                       /\ MentionsKeyword(Combined(post.title, post.selftext))
                       => \E k \in DOMAIN candidates : FromPost(candidates[k], post)
        /\ world.x_enabled =>
               \A result \in SearchResults :
                   MentionsKeyword(Combined(result.title, result.snippet))
                   => \E k \in DOMAIN candidates : FromResult(candidates[k], result)

\* a subreddit request failed and the search poller raised, and a later subreddit
\* has given a candidate
C10_Witness ==
    /\ Fetched
    /\ world.reddit[1].kind = "none"
    /\ world.x_enabled /\ world.x.kind = "raise"
    /\ \E k \in DOMAIN candidates : candidates[k].source_id[1] = "reddit"
    /\ \E j \in DOMAIN errors : errors[j].kind = "X fetch error"

\* analyze returns for this answer of the model API with the candidate accepted
Accepts(outcome) ==
    /\ outcome.api = "ok"
    /\ outcome.verdict.is_valid_sighting = "true"
    /\ ~outcome.verdict.bad_field

\* analyze returns for this answer of the model API with the candidate rejected
Rejects(outcome) ==
    \/ outcome.api \in {"raise", "empty", "badjson"}
    \/ outcome.api = "ok" /\ outcome.verdict.is_valid_sighting = "false"

\* analyze raises for this answer of the model API
Excepts(outcome) == ~Accepts(outcome) /\ ~Rejects(outcome)

\* C11: ANALYZE never drops, duplicates or reorders candidates.  Whatever each
\* analysis does (accepts, rejects, raises), analyzed_candidates has one entry per
\* fetched candidate, in fetch order, the i-th being the i-th fetched candidate with
\* the outcome of its own analysis: a raise on one candidate does not stop the
\* analysis of those after it
C11_AnalyzeKeepsAll ==
    [][pc = "analyze_candidates" =>
          /\ Len(analyzed_candidates') = Len(candidates)
          /\ \A i \in DOMAIN candidates :
                 /\ analyzed_candidates'[i].source_id = candidates[i].source_id
                 /\ analyzed_candidates'[i].raw_text = candidates[i].raw_text
                 /\ analyzed_candidates'[i].timestamp_detected
                      = candidates[i].timestamp_detected
                 /\ Accepts(outcomes'[i]) =>
                        /\ analyzed_candidates'[i].status = "PENDING_REVIEW"
                        /\ analyzed_candidates'[i].confidence_score
                             = outcomes'[i].verdict.confidence
                 /\ Rejects(outcomes'[i]) => analyzed_candidates'[i].status = "REJECTED"
                 /\ Excepts(outcomes'[i]) => analyzed_candidates'[i].status = "ERROR"]_vars

\* the analysis of the first candidate raised and the second one was accepted
C11_Witness ==
    /\ Analyzed
    /\ Len(outcomes) = 2
    /\ Excepts(outcomes[1])
    /\ Accepts(outcomes[2])
    /\ analyzed_candidates[1].status = "ERROR"
    /\ analyzed_candidates[2].status = "PENDING_REVIEW"
    /\ analyzed_candidates[2].confidence_score = outcomes[2].verdict.confidence
    /\ analyzed_candidates[1].source_id # analyzed_candidates[2].source_id

\* the process has started: last_check is what _load_last_check made of the file
Loaded == pc = EntryPoint /\ visited = <<>> /\ state_file # <<>>

PlainForm(t) == <<[stamp |-> t, suffix |-> <<"+00:00">>]>>

\* C12: a stored timestamp that ends in "Z" and one that ends in the duplicated
\* offset "+00:00+00:00" both load as the instant of the stamp, the same value that
\* the plain "+00:00" form of that stamp loads as
C12_LoadNormalizes ==
    Loaded /\ state_file[1].suffix \in {<<"Z">>, <<"+00:00", "+00:00">>} =>
        /\ last_check = <<state_file[1].stamp>>
        /\ last_check = LoadLastCheck(PlainForm(state_file[1].stamp))

\* the process has loaded a timestamp stored with the duplicated offset
C12_Witness ==
    /\ Loaded
    /\ state_file[1].suffix = <<"+00:00", "+00:00">>
    /\ state_file[1].stamp = 2
    /\ last_check = <<2>>

\* the text is the word, in any case, between any number of blanks
Spells(text, word) ==
    \E i \in DOMAIN text :
        /\ i + Len(word) - 1 <= Len(text)
        /\ \A j \in DOMAIN word : LowerChar(text[i + j - 1]) = word[j]
        /\ \A j \in DOMAIN text : j < i \/ j > i + Len(word) - 1 => text[j] = " "

\* C13: the vehicle_type stored in extracted_data is always "cybercab", "model y" or
\* absent.  When analyze populates extracted_data: "Cyber Cab" and "CYBERCAB" give
\* "cybercab", "Model-Y" gives "model y", "Semi" gives absent, and so does every
\* value that is not, without regard to case and to blanks around it, one of
\* cybercab, cyber cab, model y, modely, model-y
C13_VehicleTypeNormalized ==
    Analyzed =>
        \A i \in DOMAIN analyzed_candidates :
            LET stored == analyzed_candidates[i].extracted_data.vehicle_type
                v == outcomes[i].verdict.vehicle_type
            IN  /\ stored \in {<<>>, <<<<"c","y","b","e","r","c","a","b">>>>,
                                <<<<"m","o","d","e","l"," ","y">>>>}
                /\ Accepts(outcomes[i]) =>
                       /\ v = <<<<"C","y","b","e","r"," ","C","a","b">>>> =>
                              stored = <<<<"c","y","b","e","r","c","a","b">>>>
                       /\ v = <<<<"C","Y","B","E","R","C","A","B">>>> =>
                              stored = <<<<"c","y","b","e","r","c","a","b">>>>
                       /\ v = <<<<"M","o","d","e","l","-","Y">>>> =>
                              stored = <<<<"m","o","d","e","l"," ","y">>>>
                       /\ v = <<<<"S","e","m","i">>>> => stored = <<>>
                       /\ v = <<>> => stored = <<>>
                       /\ v # <<>> /\ (\A word \in {Cybercab, CyberCab, ModelY, ModelYJoined,
                                                     ModelYDashed} : ~Spells(v[1], word))
                              => stored = <<>>

\* the model reported "Cyber Cab" for an accepted candidate, stored as "cybercab"
C13_Witness ==
    /\ Analyzed
    /\ \E i \in DOMAIN outcomes :
           /\ Accepts(outcomes[i])
           /\ outcomes[i].verdict.vehicle_type = <<<<"C","y","b","e","r"," ","C","a","b">>>>
           /\ analyzed_candidates[i].extracted_data.vehicle_type
                = <<<<"c","y","b","e","r","c","a","b">>>>

\* C16: analyze maps the verdict onto the candidate.  For a verdict with
\* is_valid_sighting true whose fields ExtractedData accepts: confidence_score is
\* the reported confidence, the status stays PENDING_REVIEW, and extracted_data holds
\* the verdict's license_plate and vehicle_color, its vehicle_type normalized and its
\* location when of the shape "city, state".  For a verdict with is_valid_sighting
\* false: confidence_score is the reported confidence, the status is REJECTED and
\* every field of extracted_data is absent, whatever fields the verdict reports
C16_VerdictMapping ==
    Analyzed =>
        \A i \in DOMAIN analyzed_candidates :
            LET c == analyzed_candidates[i]
                verdict == outcomes[i].verdict
            IN  /\ Accepts(outcomes[i]) =>
                       /\ c.confidence_score = verdict.confidence
                       /\ c.status = "PENDING_REVIEW"
                       /\ c.extracted_data.license_plate = verdict.license_plate
                       /\ c.extracted_data.vehicle_color = verdict.vehicle_color
                       /\ verdict.vehicle_type = <<<<"C","Y","B","E","R","C","A","B">>>> =>
                              c.extracted_data.vehicle_type
                                = <<<<"c","y","b","e","r","c","a","b">>>>
                       /\ verdict.location = <<<<"A","u","s","t","i","n",","," ","T","X">>>> =>
                              c.extracted_data.location = verdict.location
                       /\ verdict.location = <<<<"A","u","s","t","i","n">>>> =>
                              c.extracted_data.location = <<>>
                /\ outcomes[i].api = "ok" /\ verdict.is_valid_sighting = "false" =>
                       /\ c.confidence_score = verdict.confidence
                       /\ c.status = "REJECTED"
                       /\ c.extracted_data.license_plate = <<>>
                       /\ c.extracted_data.vehicle_type = <<>>
                       /\ c.extracted_data.vehicle_color = <<>>
                       /\ c.extracted_data.location = <<>>

\* a verdict with is_valid_sighting false that reports a confidence of 0.5, a plate
\* and a vehicle type has been mapped onto a candidate
C16_Witness ==
    /\ Analyzed
    /\ \E i \in DOMAIN outcomes :
           /\ outcomes[i].api = "ok"
           /\ outcomes[i].verdict.is_valid_sighting = "false"
           /\ outcomes[i].verdict.confidence = 5
           /\ outcomes[i].verdict.license_plate # <<>>
           /\ outcomes[i].verdict.vehicle_type = <<<<"C","Y","B","E","R","C","A","B">>>>
           /\ analyzed_candidates[i].status = "REJECTED"
           /\ analyzed_candidates[i].confidence_score = 5

\* C14: every failed request of a source (a subreddit listing request or the search
\* request that fails with a network or parse error) puts an error string of that
\* source in errors, and the source whose request failed gives no candidate
C14_FetchFailureIsError ==
    Fetched =>
        /\ (\E i \in DOMAIN SUBREDDITS : world.reddit[i].kind = "none") =>
               \E j \in DOMAIN errors : errors[j].kind = "Reddit fetch error"
        /\ world.x_enabled /\ world.x.kind = "none" =>
               /\ \E j \in DOMAIN errors : errors[j].kind = "X fetch error"
               /\ \A k \in DOMAIN candidates : candidates[k].source_id[1] # "x"

\* the model reported a confidence of 0.5 or more and analyze raised after writing it
RaisesAfterScoring(outcome) ==
    /\ outcome.api = "ok"
    /\ outcome.verdict.is_valid_sighting = "true"
    /\ outcome.verdict.bad_field
    /\ outcome.verdict.confidence >= 5

\* C15: from ANALYZE on, a candidate with status ERROR has confidence_score 0.0, and
\* ROUTE puts it in rejected and not in valid; a candidate whose analysis raised after
\* writing a reported confidence of 0.5 or more is such a candidate
C15_ErrorIsRejected ==
    /\ \A i \in DOMAIN analyzed_candidates :
           analyzed_candidates[i].status = "ERROR" =>
               analyzed_candidates[i].confidence_score = 0
    /\ \A i \in DOMAIN outcomes :
           Excepts(outcomes[i]) =>
               /\ analyzed_candidates[i].status = "ERROR"
               /\ analyzed_candidates[i].confidence_score = 0
    /\ Routed =>
           /\ \A i \in DOMAIN analyzed_candidates :
                  analyzed_candidates[i].status = "ERROR" =>
                      /\ Count(valid_candidates, analyzed_candidates[i]) = 0
                      /\ Count(rejected_candidates, analyzed_candidates[i])
                           = Count(analyzed_candidates, analyzed_candidates[i])
           /\ \A i \in DOMAIN valid_candidates : valid_candidates[i].status # "ERROR"

\* ROUTE has rejected a candidate whose analysis raised after a confidence of 1.5
\* was written onto it
C15_Witness ==
    /\ pc = "END"
    /\ Routed
    /\ \E i \in DOMAIN outcomes :
           /\ RaisesAfterScoring(outcomes[i])
           /\ outcomes[i].verdict.confidence = 15
           /\ analyzed_candidates[i].status = "ERROR"
           /\ Count(rejected_candidates, analyzed_candidates[i]) >= 1
    /\ valid_candidates # <<>>

FetchErrorKinds == {"Reddit fetch error", "X fetch error"}

IsPrefix(a, b) == Len(a) <= Len(b) /\ SubSeq(b, 1, Len(a)) = a

\* C17: the errors list only grows during a cycle.  FETCH and ANALYZE keep the
\* entries they find and add theirs at the end, FETCH only fetch errors and ANALYZE
\* only analysis errors; ROUTE and the steps after it leave the list unchanged; so
\* the final list is the FETCH errors followed by the ANALYZE errors
C17_ErrorsOnlyGrow ==
    [][/\ pc # "idle" => IsPrefix(errors, errors')
       /\ pc = "fetch_posts" =>
              \A j \in DOMAIN errors' : j > Len(errors) => errors'[j].kind \in FetchErrorKinds
       /\ pc = "analyze_candidates" =>
              /\ \A j \in DOMAIN errors' :
                     j > Len(errors) => errors'[j].kind = "Analysis error"
              /\ Len(errors') - Len(errors)
                   = Cardinality({i \in DOMAIN outcomes' : Excepts(outcomes'[i])})
       /\ pc \in {"route_candidates", "END", "save_valid"} => errors' = errors]_vars

\* the cycle has ended with a fetch error followed by an analysis error
C17_Witness ==
    /\ CycleEnded
    /\ Len(errors) = 2
    /\ errors[1].kind \in FetchErrorKinds
    /\ errors[2].kind = "Analysis error"

AllCounters == {"candidates_fetched", "candidates_analyzed", "valid_count", "rejected_count"}

\* C18: once ROUTE has run, stats holds the four counters candidates_fetched,
\* candidates_analyzed, valid_count and rejected_count, each the length of its list,
\* and candidates_fetched = candidates_analyzed = valid_count + rejected_count; before
\* that, it holds the counters of the stages that have run
C18_StatsComplete ==
    /\ Fetched => DOMAIN stats = {"candidates_fetched"}
    /\ Analyzed => DOMAIN stats = {"candidates_fetched", "candidates_analyzed"}
    /\ Routed =>
           /\ DOMAIN stats = AllCounters
           /\ stats.candidates_fetched = Len(candidates)
           /\ stats.candidates_analyzed = Len(analyzed_candidates)
           /\ stats.valid_count = Len(valid_candidates)
           /\ stats.rejected_count = Len(rejected_candidates)
           /\ stats.candidates_fetched = stats.candidates_analyzed
           /\ stats.candidates_analyzed = stats.valid_count + stats.rejected_count

\* the graph has ended with a valid and a rejected candidate counted
C18_Witness ==
    /\ pc = "END"
    /\ Routed
    /\ stats.valid_count = 1
    /\ stats.rejected_count = 1
    /\ stats.candidates_fetched = 2

\* C19: on the incremental path the scan of a subreddit's page stops at the first
\* post created at or before the watermark.  No post at or after that position gives
\* a candidate, even a newer post that mentions a keyword; no candidate comes from a
\* post created at or before the watermark; and the stop is that subreddit's only:
\* in every subreddit the keyword posts before the stop give a candidate (unless the
\* poller raises)
C19_BreakAtWatermark ==
    Fetched /\ last_check # <<>> =>
        /\ \A i \in DOMAIN SUBREDDITS : \A n \in DOMAIN world.reddit[i].posts :
               LET posts == world.reddit[i].posts
                   stopped == \E m \in 1..n : posts[m].created_utc <= last_check[1]
               IN  /\ stopped => \A k \in DOMAIN candidates : ~FromPost(candidates[k], posts[n])
                   /\ (/\ ~stopped
                       /\ MentionsKeyword(Combined(posts[n].title, posts[n].selftext))
                       /\ \A j \in DOMAIN SUBREDDITS : world.reddit[j].kind # "raise")
                      => \E k \in DOMAIN candidates : FromPost(candidates[k], posts[n])
        /\ \A k \in DOMAIN candidates :
               candidates[k].source_id[1] = "reddit" =>
                   \E post \in ListedPosts :
                       /\ FromPost(candidates[k], post)
                       /\ post.created_utc > last_check[1]

\* an out-of-order page: the scan of a subreddit stopped at an old post in front of a
\* newer keyword post, which gave no candidate, and a later subreddit gave one
C19_Witness ==
    /\ Fetched
    /\ last_check = <<1>>
    /\ \E i, j \in DOMAIN SUBREDDITS :
           /\ i < j
           /\ Len(world.reddit[i].posts) = 2
           /\ world.reddit[i].posts[1].id = "r3"
           /\ world.reddit[i].posts[2].id = "r2"
           /\ Len(world.reddit[j].posts) = 1
           /\ world.reddit[j].posts[1].id = "r1"
    /\ \E k \in DOMAIN candidates : candidates[k].source_id = <<"reddit", "r1">>
    /\ \A k \in DOMAIN candidates : candidates[k].source_id # <<"reddit", "r2">>

\* the cycle had valid candidates and the write of the candidate file failed
StoreWriteFailed == CycleEnded /\ valid_candidates # <<>> /\ ret = <<0>>

\* C20: a failed write of the candidate file does not crash the process.  run_once
\* returns (0); the watermark, written before the candidate write, stays the time of
\* this cycle in last_check and in the file it was written to; and the candidate
\* file holds none of the cycle's valid candidates: it is as the cycle found it, or
\* unreadable
C20_StoreWriteFailure ==
    /\ CycleEnded => ret \in {<<0>>, <<Len(valid_candidates)>>}
    /\ StoreWriteFailed =>
           /\ last_check = <<clock>>
           /\ lc_write = "ok" =>
                  /\ state_file = SaveLastCheck(clock)
                  /\ LoadLastCheck(state_file) = <<clock>>
           /\ output_file \in {prev_output, <<>>}

\* the second cycle found a record in the candidate file, failed to write its valid
\* candidate, and has ended with the file as found and the watermark advanced
C20_Witness ==
    /\ StoreWriteFailed
    /\ cycle = 2
    /\ lc_write = "ok"
    /\ output_file = prev_output
    /\ Len(output_file) = 1
    /\ LoadLastCheck(state_file) = <<clock>>

\* C21: the watermark round trip.  The file that _save_last_check writes for a time
\* holds the offset "+00:00" followed by "Z", and _load_last_check reads that time
\* from it: the process that starts after a cycle whose watermark write succeeded
\* has as last_check the time that cycle wrote
C21_WatermarkRoundTrip ==
    [][pc = "idle" /\ cycle > 0 /\ lc_write = "ok" =>
          /\ state_file = <<[stamp |-> clock, suffix |-> <<"+00:00", "Z">>]>>
          /\ last_check = <<clock>>
          /\ pc' = EntryPoint => last_check' = last_check]_vars

\* the second cycle has started with the watermark that the first cycle wrote
C21_Witness ==
    /\ pc = EntryPoint
    /\ cycle = 2
    /\ visited = <<>>
    /\ state_file # <<>>
    /\ state_file[1].suffix = <<"+00:00", "Z">>
    /\ last_check = <<state_file[1].stamp>>
    /\ last_check = <<clock>>

\* the candidates of the search poller among the fetched ones, in order
FromSearch == SelectSeq(candidates, LAMBDA c : c.source_id[1] = "x")

====
